---- MODULE Spec2Model ----
(***************************************************************************)
(* State-machine model of the typing-test session engine `Thok`            *)
(* (src/src/thok.rs).  One variable per field of the struct, one action    *)
(* per public method.  Characters are Unicode code points, instants are    *)
(* milliseconds of the system clock, and the f64 countdown `duration` is   *)
(* kept as an exact binary64 value (sign + magnitude in units of 2^-55).   *)
(***************************************************************************)
EXTENDS Integers, Sequences, FiniteSets, TLC

\* ------------------------------------------------------------------ bounds
\* milliseconds the clock moves between two calls when it moves at all
ClockStep == 500
\* how many times the clock moves in a behaviour
MaxClockSteps == 2
\* how many on_tick calls succeed in a behaviour
MaxTicks == 12
\* how many points calc_results may already find in wpm_coords
MaxCoords == 1
\* how many times the clock moves in a behaviour of a scripted session
MaxLongSteps == 4

\* the keys the driver delivers: 'a' and 'b'
Keys == {97, 98}
\* the sessions constructed, a non-empty prompt and None or Some(seconds):
\* "ab" untimed, "a" with a one-second countdown, and the untimed prompt
\* "\u{e9}a", whose first character takes two bytes in UTF-8
Sessions == {<<<<97, 98>>, <<>>>>, <<<<97>>, <<1>>>>, <<<<233, 97>>, <<>>>>}

\* removed: what the last call removed (its character, and the length of the
\* log and the cursor before the call), kept by the write that types the
\* character again right after: history for the round trip of backspace and write
VARIABLES prompt, input, raw_coords, wpm_coords, cursor_pos, started_at,
          duration, wpm, accuracy, std_dev, now, secs, ticks, finalized, last, removed

fields == <<prompt, input, raw_coords, wpm_coords, cursor_pos, started_at,
            duration, wpm, accuracy, std_dev>>
vars == <<prompt, input, raw_coords, wpm_coords, cursor_pos, started_at,
          duration, wpm, accuracy, std_dev, now, secs, ticks, finalized, last, removed>>

\* ------------------------------------------------------- binary64 countdown
\* A finite f64 whose magnitude is hi * 2^29 + lo units of 2^-55.
Limb == 536870912
\* 0.1_f64 = 3602879701896397 * 2^-55 = (6710886 * 2^29 + 214748365) * 2^-55
TickHi == 6710886
TickLo == 214748365

RECURSIVE BitLen(_)
BitLen(n) == IF n = 0 THEN 0 ELSE 1 + BitLen(n \div 2)

RECURSIVE Pow2(_)
Pow2(n) == IF n = 0 THEN 1 ELSE 2 * Pow2(n - 1)

\* `d as f64` for a small usize d: exact
FromUsize(d) == [neg |-> FALSE, hi |-> d * 67108864, lo |-> 0]

\* round a magnitude to 53 significant bits, ties to even
RoundMag(hi, lo) ==
    LET s == IF hi = 0 THEN 0 ELSE
             IF BitLen(hi) + 29 > 53 THEN BitLen(hi) + 29 - 53 ELSE 0
        p == Pow2(s)
        r == lo % p
        down == lo - r
        up == IF s = 0 THEN FALSE
              ELSE \/ 2 * r > p
                   \/ 2 * r = p /\ (down \div p) % 2 = 1
        lo2 == IF up THEN down + p ELSE down
    IN IF lo2 >= Limb THEN <<hi + 1, lo2 - Limb>> ELSE <<hi, lo2>>

MagLess(h1, l1, h2, l2) == h1 < h2 \/ (h1 = h2 /\ l1 < l2)

MagSub(h1, l1, h2, l2) ==
    IF l1 >= l2 THEN <<h1 - h2, l1 - l2>> ELSE <<h1 - h2 - 1, l1 + Limb - l2>>

MagAdd(h1, l1, h2, l2) ==
    IF l1 + l2 >= Limb THEN <<h1 + h2 + 1, l1 + l2 - Limb>> ELSE <<h1 + h2, l1 + l2>>

\* x - 0.1 in binary64
SubTick(x) ==
    IF x.neg
    THEN LET m == MagAdd(x.hi, x.lo, TickHi, TickLo)
             r == RoundMag(m[1], m[2])
         IN [neg |-> TRUE, hi |-> r[1], lo |-> r[2]]
    ELSE IF MagLess(x.hi, x.lo, TickHi, TickLo)
         THEN LET m == MagSub(TickHi, TickLo, x.hi, x.lo)
                  r == RoundMag(m[1], m[2])
              IN [neg |-> TRUE, hi |-> r[1], lo |-> r[2]]
         ELSE LET m == MagSub(x.hi, x.lo, TickHi, TickLo)
                  r == RoundMag(m[1], m[2])
              IN [neg |-> FALSE, hi |-> r[1], lo |-> r[2]]

\* x - 0.1 without the rounding of the result
ExactSubTick(x) ==
    IF x.neg
    THEN LET m == MagAdd(x.hi, x.lo, TickHi, TickLo)
         IN [neg |-> TRUE, hi |-> m[1], lo |-> m[2]]
    ELSE IF MagLess(x.hi, x.lo, TickHi, TickLo)
         THEN LET m == MagSub(TickHi, TickLo, x.hi, x.lo)
              IN [neg |-> TRUE, hi |-> m[1], lo |-> m[2]]
         ELSE LET m == MagSub(x.hi, x.lo, TickHi, TickLo)
              IN [neg |-> FALSE, hi |-> m[1], lo |-> m[2]]

\* x <= 0.0
LeZero(x) == x.neg \/ (x.hi = 0 /\ x.lo = 0)

\* ------------------------------------------------------------ pure helpers
\* char::len_utf8
len_utf8(c) == IF c < 128 THEN 1 ELSE IF c < 2048 THEN 2 ELSE IF c < 65536 THEN 3 ELSE 4

\* String::len: the length of the prompt in UTF-8 bytes
RECURSIVE prompt_len(_)
prompt_len(p) == IF p = <<>> THEN 0 ELSE len_utf8(Head(p)) + prompt_len(Tail(p))

\* an insert that appends whatever the index
Insert_at_end(s, idx, x) == Append(s, x)

\* Vec::insert(idx, x) with a 0-based index idx <= len
Insert(s, idx, x) == SubSeq(s, 1, idx) \o <<x>> \o SubSeq(s, idx + 1, Len(s))

\* a remove that takes the element after idx, if any
Remove_next(s, idx) == SubSeq(s, 1, idx + 1) \o SubSeq(s, idx + 3, Len(s))

\* a remove that takes the first element whatever the index
Remove_first(s, idx) == Tail(s)

\* a remove that drops the element at idx and all that follow
Remove_through(s, idx) == SubSeq(s, 1, idx)

\* Vec::remove(idx) with a 0-based index idx < len
Remove(s, idx) == SubSeq(s, 1, idx) \o SubSeq(s, idx + 2, Len(s))

Call(op, ret) == [op |-> op, ret |-> ret]

\* ------------------------------------------------------------------- state
new(prompt_string, d) ==
    /\ prompt = prompt_string
    /\ input = <<>>
    /\ raw_coords = <<>>
    /\ wpm_coords = <<>>
    /\ cursor_pos = 0
    /\ started_at = <<>>
    /\ duration = IF d = <<>> THEN <<>> ELSE <<FromUsize(d[1])>>
    /\ wpm = 0
    /\ accuracy = [nan |-> FALSE, val |-> 0]
    /\ std_dev = [sq_num |-> 0, sq_den |-> 1]

Init ==
    /\ \E s \in Sessions : new(s[1], s[2]) /\ secs = s[2]
    /\ now = 0
    /\ ticks = 0
    /\ finalized = FALSE
    /\ last = Call("new", "ok")
    /\ removed = <<>>

\* ----------------------------------------------------------------- methods
has_started == started_at # <<>>

\* has_finished comparing against the number of characters of the prompt
has_finished_chars ==
    \/ Len(input) = Len(prompt)
    \/ (duration # <<>> /\ LeZero(duration[1]))

has_finished ==
    \/ Len(input) = prompt_len(prompt)
    \/ (duration # <<>> /\ LeZero(duration[1]))

\* increment_cursor without its bound check
increment_cursor_unchecked(pos, n) == pos + 1

\* the cursor after increment_cursor on a log of length n
increment_cursor(pos, n) == IF pos < n THEN pos + 1 ELSE pos

\* the cursor after decrement_cursor
decrement_cursor(pos) == IF pos > 0 THEN pos - 1 ELSE pos

\* a lookup that answers the last character past the end of the prompt
get_expected_char_clamped(idx) ==
    <<prompt[IF idx < Len(prompt) THEN idx + 1 ELSE Len(prompt)]>>

\* a lookup that wraps around past the end of the prompt
get_expected_char_wrapping(idx) == <<prompt[(idx % Len(prompt)) + 1]>>

\* prompt.chars().nth(idx): <<c>> or <<>> (None)
get_expected_char(idx) == IF idx < Len(prompt) THEN <<prompt[idx + 1]>> ELSE <<>>

\* the index write looks the expected character up at
write_idx == Len(input)

OnTick ==
    /\ ticks < MaxTicks
    /\ IF duration = <<>>
       THEN /\ last' = Call("on_tick", "panic")
            /\ UNCHANGED <<duration, ticks>>
       ELSE /\ duration' = <<SubTick(duration[1])>>
            /\ ticks' = ticks + 1
            /\ last' = Call("on_tick", "ok")
    /\ removed' = <<>>
    /\ UNCHANGED <<prompt, input, raw_coords, wpm_coords, cursor_pos, started_at,
                   wpm, accuracy, std_dev, now, secs, finalized>>

IncrementCursor ==
    /\ cursor_pos' = increment_cursor(cursor_pos, Len(input))
    /\ last' = Call("increment_cursor", "ok")
    /\ removed' = <<>>
    /\ UNCHANGED <<prompt, input, raw_coords, wpm_coords, started_at, duration,
                   wpm, accuracy, std_dev, now, secs, ticks, finalized>>

DecrementCursor ==
    /\ cursor_pos' = decrement_cursor(cursor_pos)
    /\ last' = Call("decrement_cursor", "ok")
    /\ removed' = <<>>
    /\ UNCHANGED <<prompt, input, raw_coords, wpm_coords, started_at, duration,
                   wpm, accuracy, std_dev, now, secs, ticks, finalized>>

Backspace ==
    /\ IF cursor_pos > 0
       THEN /\ input' = Remove(input, cursor_pos - 1)
            /\ cursor_pos' = decrement_cursor(cursor_pos)
            /\ removed' = <<[char |-> input[cursor_pos].char, len |-> Len(input),
                             pos |-> cursor_pos]>>
       ELSE /\ UNCHANGED <<input, cursor_pos>>
            /\ removed' = <<>>
    /\ last' = Call("backspace", "ok")
    /\ UNCHANGED <<prompt, raw_coords, wpm_coords, started_at, duration,
                   wpm, accuracy, std_dev, now, secs, ticks, finalized>>

\* start(): started_at = Some(SystemTime::now())
start == <<now>>

\* a write that starts the session on every empty log
should_start_on_empty(idx) == idx = 0

\* write starts the session on an empty log that has not started yet
should_start(idx) == idx = 0 /\ started_at = <<>>

Write(c) ==
    LET idx == write_idx
        started == IF should_start(idx) THEN start ELSE started_at
        expected == get_expected_char(idx)
    IN /\ started_at' = started
       /\ IF expected = <<>> \/ cursor_pos > Len(input)
          THEN /\ last' = Call("write", "panic")
               /\ UNCHANGED <<input, cursor_pos>>
          ELSE LET outcome == IF c = expected[1] THEN "Correct" ELSE "Incorrect"
                   rec == [char |-> c, outcome |-> outcome, timestamp |-> now]
               IN /\ input' = Insert(input, cursor_pos, rec)
                  /\ cursor_pos' = increment_cursor(cursor_pos, Len(input'))
                  /\ last' = Call("write", "ok")
       /\ removed' = IF last.op = "backspace" /\ removed # <<>> /\ removed[1].char = c
                     THEN removed ELSE <<>>
       /\ UNCHANGED <<prompt, raw_coords, wpm_coords, duration,
                      wpm, accuracy, std_dev, now, secs, ticks, finalized>>

HasStarted ==
    /\ last' = Call("has_started", IF has_started THEN "true" ELSE "false")
    /\ removed' = <<>>
    /\ UNCHANGED <<fields, now, secs, ticks, finalized>>

HasFinished ==
    /\ last' = Call("has_finished", IF has_finished THEN "true" ELSE "false")
    /\ removed' = <<>>
    /\ UNCHANGED <<fields, now, secs, ticks, finalized>>

\* ------------------------------------------------------------ calc_results
\* f64::to_string of a number of seconds given in ms: whole part and millis
to_string(ms) == <<ms \div 1000, ms % 1000>>

\* str::parse::<f64> of such a string, again in ms
parse(s) == s[1] * 1000 + s[2]

\* f64::ceil of a number of seconds given in ms
ceil(ms) == ((ms + 999) \div 1000) * 1000

\* f64::floor of a number of seconds given in ms
floor(ms) == (ms \div 1000) * 1000

\* the records of the log whose outcome is Correct
correct_chars == SelectSeq(input, LAMBDA i : i.outcome = "Correct")

\* a bucket rule without the cap at the measured total
num_secs_uncapped(timestamp, since, total_time) ==
    IF timestamp = since THEN 1000 ELSE ceil(timestamp - since)

\* the bucket (in ms) a correct record stamped `timestamp` is counted in,
\* for a session started at `since` and measured `total_time` ms long
num_secs(timestamp, since, total_time) ==
    LET n == timestamp - since
        whole_second_limit == floor(total_time)
    IN IF n = 0 THEN 1000
       ELSE IF ceil(n) <= whole_second_limit
            THEN IF n > 0 /\ n < 1000 THEN 1000 ELSE ceil(n)
            ELSE total_time

\* the HashMap the fold builds: bucket string -> number of correct records
bucket_map(since, total_time) ==
    LET cc == correct_chars
        key(j) == to_string(num_secs(cc[j].timestamp, since, total_time))
    IN [k \in {key(j) : j \in 1..Len(cc)} |->
            Cardinality({j \in 1..Len(cc) : key(j) = k})]

\* the pairs of a map in descending order of second
RECURSIVE sorted_descending(_, _)
sorted_descending(m, keys) ==
    IF keys = {} THEN <<>>
    ELSE LET k == CHOOSE a \in keys : \A b \in keys : parse(a) >= parse(b)
         IN <<<<parse(k), m[k]>>>> \o sorted_descending(m, keys \ {k})

\* sorted_by(partial_cmp) of the (second, count) pairs of a map
RECURSIVE sorted(_, _)
sorted(m, keys) ==
    IF keys = {} THEN <<>>
    ELSE LET k == CHOOSE a \in keys : \A b \in keys : parse(a) <= parse(b)
         IN <<<<parse(k), m[k]>>>> \o sorted(m, keys \ {k})

correct_chars_per_sec(since, total_time) ==
    LET m == bucket_map(since, total_time) IN sorted(m, DOMAIN m)

\* the counts of every bucket but the last
correct_chars_at_whole_sec_intervals(cps) ==
    [i \in 1..(IF Len(cps) = 0 THEN 0 ELSE Len(cps) - 1) |-> cps[i][2]]

RECURSIVE Sum(_)
Sum(s) == IF s = <<>> THEN 0 ELSE Head(s) + Sum(Tail(s))

\* util::std_deviation: the results it may return, <<>> for None.  The square
\* of the deviation is kept as a fraction: variance = (n*Sum(x^2) - Sum(x)^2) / n^2.
\* On an empty slice the result is undefined: None or some value.
std_deviation(data) ==
    IF data = <<>>
    THEN {<<>>, <<[sq_num |-> 0, sq_den |-> 1]>>}
    ELSE LET n == Len(data)
             sq == [i \in 1..n |-> data[i] * data[i]]
         IN {<<[sq_num |-> n * Sum(sq) - Sum(data) * Sum(data), sq_den |-> n * n]>>}

\* the points the loop pushes: (second, ((60 / second) * cumulative) / 5),
\* the value kept as the fraction 60000 * cumulative / (5 * ms)
new_coords(cps) ==
    [i \in 1..Len(cps) |->
        [sec |-> cps[i][1],
         num |-> 60000 * Sum([j \in 1..i |-> cps[j][2]]),
         den |-> 5 * cps[i][1]]]

\* f64::ceil of a point's value
wpm_of(point) == (point.num + point.den - 1) \div point.den

\* an accuracy that truncates instead of rounding
accuracy_of_truncated(correct, len) ==
    IF len = 0 THEN [nan |-> TRUE, val |-> 0]
    ELSE [nan |-> FALSE, val |-> (100 * correct) \div len]

\* ((correct / len) * 100).round(): NaN for 0/0, else half away from zero
accuracy_of(correct, len) ==
    IF len = 0 THEN [nan |-> TRUE, val |-> 0]
    ELSE [nan |-> FALSE, val |-> (200 * correct + len) \div (2 * len)]

\* a filter that consumes the log in place instead of a clone of it
filtered_in_place(log) == SelectSeq(log, LAMBDA i : i.outcome = "Correct")

\* self.input after `self.input.clone().into_iter()`: the clone is consumed,
\* the log stays
cloned(log) == log

CalcResults ==
    /\ Len(wpm_coords) < MaxCoords
    /\ input' = cloned(input)
    /\ removed' = <<>>
    /\ UNCHANGED <<prompt, raw_coords, cursor_pos, started_at, duration,
                   now, secs, ticks>>
    /\ IF started_at = <<>>
       THEN \* line 87: started_at.unwrap()
            /\ last' = Call("calc_results", "panic")
            /\ UNCHANGED <<wpm_coords, wpm, accuracy, std_dev, finalized>>
       ELSE LET total_time == now - started_at[1]
                cps == correct_chars_per_sec(started_at[1], total_time)
                data == correct_chars_at_whole_sec_intervals(cps)
                coords == wpm_coords \o new_coords(cps)
            IN \E sd \in std_deviation(data) :
                 IF sd = <<>>
                 THEN \* line 140: std_deviation(..).unwrap()
                      /\ last' = Call("calc_results", "panic")
                      /\ UNCHANGED <<wpm_coords, wpm, accuracy, std_dev, finalized>>
                 ELSE /\ std_dev' = sd[1]
                      /\ wpm_coords' = coords
                      /\ IF coords = <<>>
                         THEN \* line 149: wpm_coords.last().unwrap()
                              /\ last' = Call("calc_results", "panic")
                              /\ UNCHANGED <<wpm, accuracy, finalized>>
                         ELSE /\ wpm' = wpm_of(coords[Len(coords)])
                              /\ accuracy' = accuracy_of(Len(correct_chars), Len(input))
                              /\ finalized' = (finalized \/ has_finished)
                              /\ last' = Call("calc_results", "ok")

\* the system clock moves on between two calls
Advance ==
    /\ now + ClockStep <= MaxClockSteps * ClockStep
    /\ now' = now + ClockStep
    /\ UNCHANGED <<fields, secs, ticks, finalized, last, removed>>

Next ==
    \/ OnTick
    \/ IncrementCursor
    \/ DecrementCursor
    \/ Backspace
    \/ \E c \in Keys : Write(c)
    \/ HasStarted
    \/ HasFinished
    \/ CalcResults
    \/ Advance

Spec == Init /\ [][Next]_vars

\* ------------------------------------------------------- scripted sessions
\* the system clock of a session that runs for some seconds
AdvanceLong ==
    /\ now + ClockStep <= MaxLongSteps * ClockStep
    /\ now' = now + ClockStep
    /\ UNCHANGED <<fields, secs, ticks, finalized, last, removed>>

Fresh ==
    /\ secs = <<>>
    /\ now = 0
    /\ ticks = 0
    /\ finalized = FALSE
    /\ last = Call("new", "ok")
    /\ removed = <<>>

\* A driver that types the prompt, every character correctly and in order,
\* each at a later instant than the one before, polls has_finished() and
\* finalizes: the prompts "cat" and "\u{e9}a", untimed.
TypingPrompts == {<<99, 97, 116>>, <<233, 97>>}

InitTyping == (\E p \in TypingPrompts : new(p, <<>>)) /\ Fresh

TypeNext ==
    /\ Len(input) < Len(prompt)
    /\ IF input = <<>> THEN TRUE ELSE now > input[Len(input)].timestamp
    /\ Write(prompt[Len(input) + 1])

NextTyping == TypeNext \/ HasFinished \/ CalcResults \/ AdvanceLong

SpecTyping == InitTyping /\ [][NextTyping]_vars

\* A driver that plays write('c'), write('x'), backspace(), write('a'),
\* write('t') on the prompt "cat" and then finalizes; where the script stands
\* shows in the last call and the log.
InitCat == new(<<99, 97, 116>>, <<>>) /\ Fresh

CatWriteC == last.op = "new" /\ Write(99)

CatWriteX ==
    /\ last.op = "write" /\ Len(input) = 1 /\ input[1].char = 99
    /\ Write(120)

CatBackspace ==
    /\ last.op = "write" /\ input[Len(input)].char = 120
    /\ Backspace

CatWriteA == last.op = "backspace" /\ Write(97)

CatWriteT ==
    /\ last.op = "write" /\ input[Len(input)].char = 97
    /\ Write(116)

\* the script has played its last keystroke
CatDone == input # <<>> /\ input[Len(input)].char = 116

CatFinalize == last.op = "write" /\ CatDone /\ CalcResults

NextCat ==
    \/ CatWriteC
    \/ CatWriteX
    \/ CatBackspace
    \/ CatWriteA
    \/ CatWriteT
    \/ CatFinalize
    \/ AdvanceLong

SpecCat == InitCat /\ [][NextCat]_vars

\* A driver that types and deletes at the end of the log of the prompt "aba"
\* over some seconds and finalizes.
InitCalc == new(<<97, 98, 97>>, <<>>) /\ Fresh

NextCalc ==
    \/ \E c \in Keys : Write(c)
    \/ Backspace
    \/ CalcResults
    \/ AdvanceLong

SpecCalc == InitCalc /\ [][NextCalc]_vars

\* --------------------------------------------------------------- properties
\* the step is a call of `op`: the clock stands still and `last` names op
Called(op) == last'.op = op /\ now' = now

\* C1: in every reachable state the cursor lies within the log,
\* 0 <= cursor_pos <= len(input).
CursorInBounds == 0 <= cursor_pos /\ cursor_pos <= Len(input)

\* C1 witness: the cursor was moved left into a two-record log
CursorMovedInside ==
    Len(input) = 2 /\ cursor_pos = 1 /\ last = Call("decrement_cursor", "ok")

FinishedStaysFinished == [][has_finished => has_finished']_vars

\* C4 (as claimed): the record a write stores is Correct exactly when the
\* character equals the prompt character at the cursor position the call
\* found.
OutcomeComparesAtCursor ==
    [][Called("write") /\ last'.ret = "ok" =>
        LET rec == input'[cursor_pos + 1]
        IN (rec.outcome = "Correct") <=>
              (cursor_pos < Len(prompt) /\ rec.char = prompt[cursor_pos + 1])]_vars

\* C5: backspace at cursor 0 changes nothing; otherwise it removes exactly
\* the record before the cursor, moves the cursor one to the left and keeps
\* every other record, in order; no other field changes.
BackspaceRemovesOne ==
    [][Called("backspace") =>
        /\ last'.ret = "ok"
        /\ UNCHANGED <<prompt, raw_coords, wpm_coords, started_at, duration,
                       wpm, accuracy, std_dev>>
        /\ IF cursor_pos = 0
           THEN UNCHANGED <<input, cursor_pos>>
           ELSE /\ cursor_pos' = cursor_pos - 1
                /\ Len(input') = Len(input) - 1
                /\ \A i \in 1..Len(input') :
                      input'[i] = IF i < cursor_pos THEN input[i] ELSE input[i + 1]]_vars

\* C5 witness: a backspace left the cursor at 0 in front of a record that
\* was written behind another one
BackspaceInTheMiddle ==
    /\ last = Call("backspace", "ok")
    /\ cursor_pos = 0
    /\ Len(input) = 1
    /\ input[1].char = 98 /\ input[1].outcome = "Correct"
    /\ prompt = <<97, 98>>

\* C6: started_at is absent at construction, is set by the first successful
\* write (to the instant of that write) and by nothing else, is never
\* cleared or changed afterwards, and has_started() answers whether it is set.
StartedAtSetOnce ==
    /\ started_at = <<>>
    /\ [][/\ started_at # <<>> => started_at' = started_at
          /\ (started_at = <<>> /\ started_at' # <<>>) =>
                (last' = Call("write", "ok") /\ started_at' = <<now>>)
          /\ (Called("write") /\ last'.ret = "ok") => started_at' # <<>>
          /\ Called("has_started") =>
                (last'.ret = "true" <=> started_at # <<>>) /\ UNCHANGED fields
         ]_vars

\* C6 witness: the whole log was deleted and a key typed again at a later
\* instant than the start
RetypedAfterDeletingAll ==
    /\ last = Call("write", "ok")
    /\ Len(input) = 1
    /\ started_at # <<>>
    /\ input[1].timestamp > started_at[1]

\* C7: calc_results before the start, on_tick without a countdown and write
\* on a log as long as the prompt has characters each abort and leave every
\* field of the session as it was.
PreconditionFaultsChangeNothing ==
    [][/\ (Called("calc_results") /\ started_at = <<>>) =>
              (last'.ret = "panic" /\ UNCHANGED fields)
       /\ (Called("on_tick") /\ duration = <<>>) =>
              (last'.ret = "panic" /\ UNCHANGED fields)
       /\ (Called("write") /\ Len(input) >= Len(prompt)) =>
              (last'.ret = "panic" /\ UNCHANGED fields)
      ]_vars

\* C7 witness: a write was refused on a started session whose log is as
\* long as the prompt
WriteRefusedAtEnd ==
    /\ last = Call("write", "panic")
    /\ Len(input) = Len(prompt)
    /\ started_at # <<>>

\* C8 (as claimed): calc_results on a finished, started session does not
\* fault when no record is Correct or when the correct records fall into
\* fewer than two buckets.
DegenerateResultsAreDefined ==
    [][(/\ Called("calc_results")
        /\ has_finished /\ has_started
        /\ Len(correct_chars_per_sec(started_at[1], now - started_at[1])) < 2)
       => last'.ret = "ok"]_vars

\* C9 (as claimed): once the session is finished and finalized, a write,
\* backspace or on_tick call fails and leaves input, cursor_pos and duration
\* alone.
NoMutationAfterFinalization ==
    [][(finalized /\ (Called("write") \/ Called("backspace") \/ Called("on_tick")))
       => (last'.ret = "panic" /\ UNCHANGED <<input, cursor_pos, duration>>)]_vars

\* C10 (as claimed): a countdown of d seconds has expired after 10 * d
\* on_tick calls.
ExpiredAfterTenTicksPerSecond ==
    (secs # <<>> /\ ticks >= 10 * secs[1]) => has_finished

\* C13: a backspace that removed character c, immediately followed by
\* write(c), gives a log as long as before the backspace, the cursor where it
\* was, and c again at the index before the cursor.
BackspaceWriteRoundTrip ==
    [][\A c \in Keys :
         (/\ last = Call("backspace", "ok")
          /\ removed # <<>> /\ removed[1].char = c
          /\ Write(c)) =>
            /\ last'.ret = "ok"
            /\ Len(input') = removed[1].len
            /\ cursor_pos' = removed[1].pos
            /\ input'[removed[1].pos].char = c]_vars

\* C13 witness: a character removed in front of another record was typed
\* again
RetypedInTheMiddle ==
    /\ last = Call("write", "ok")
    /\ removed # <<>>
    /\ cursor_pos < Len(input)
    /\ input[cursor_pos].char = removed[1].char

\* C14: a successful write(c) inserts one record (c, stamped now) at the
\* cursor, moves the cursor one to the right, keeps the records before the
\* cursor in place and shifts the others up by one; of the other fields only
\* started_at changes, and only from None to the instant of the write.
WriteInsertsAtCursor ==
    [][\A c \in Keys :
         (Write(c) /\ last'.ret = "ok") =>
            /\ Len(input') = Len(input) + 1
            /\ cursor_pos' = cursor_pos + 1
            /\ input'[cursor_pos + 1].char = c
            /\ input'[cursor_pos + 1].timestamp = now
            /\ \A i \in 1..cursor_pos : input'[i] = input[i]
            /\ \A i \in (cursor_pos + 1)..Len(input) : input'[i + 1] = input[i]
            /\ \/ started_at' = started_at
               \/ started_at = <<>> /\ started_at' = <<now>>
            /\ UNCHANGED <<prompt, raw_coords, wpm_coords, duration,
                           wpm, accuracy, std_dev>>]_vars

\* C14 witness: a write put a record in front of an older one
WroteInFrontOfARecord ==
    /\ last = Call("write", "ok")
    /\ Len(input) = 2
    /\ cursor_pos = 1
    /\ input[1].timestamp > input[2].timestamp

\* C15 (as claimed): on_tick on a timed session lowers duration by exactly
\* the tick interval and changes no other field.
TickLowersByExactlyATenth ==
    [][(Called("on_tick") /\ duration # <<>>) =>
          /\ duration' = <<ExactSubTick(duration[1])>>
          /\ UNCHANGED <<prompt, input, raw_coords, wpm_coords, cursor_pos,
                         started_at, wpm, accuracy, std_dev>>]_vars

\* C19: the log never holds more records than the prompt has characters.
LogWithinPrompt == Len(input) <= Len(prompt)

\* C19 witness: a write was refused on a log holding as many records as the
\* prompt has characters although has_finished() is still false
WriteRefusedOnTwoByteChar ==
    /\ last = Call("write", "panic")
    /\ Len(input) = Len(prompt)
    /\ ~has_finished

\* C20: calc_results leaves prompt, input, cursor_pos, started_at and duration
\* (and raw_coords) as they were; it writes result fields only.
CalcResultsKeepsTheLog ==
    [][Called("calc_results") =>
          UNCHANGED <<prompt, input, raw_coords, cursor_pos, started_at, duration>>]_vars

\* C20 witness: results were computed from a log that holds an Incorrect
\* record
ResultsOverMixedLog ==
    /\ last = Call("calc_results", "ok")
    /\ wpm_coords # <<>>
    /\ \E i \in 1..Len(input) : input[i].outcome = "Incorrect"

\* ------------------------------------------- properties of the metrics
\* the indices of the records of the log whose outcome is Correct
CorrectIdx == {i \in 1..Len(input) : input[i].outcome = "Correct"}

\* the bucket rule as claimed, in ms, for the record at index i when the
\* results are computed now: second 1 at offset 0, else the next whole second
\* if the measured total reaches it, else the measured total
BucketOf(i) ==
    LET n == input[i].timestamp - started_at[1]
        total == now - started_at[1]
        up == ((n + 999) \div 1000) * 1000
    IN IF n = 0 THEN 1000
       ELSE IF up <= (total \div 1000) * 1000 THEN up ELSE total

\* the number of Correct records whose bucket is second s or earlier
CorrectUpTo(s) == Cardinality({i \in CorrectIdx : BucketOf(i) <= s})

\* the step is the first calc_results of the session that returns
Finalized == Called("calc_results") /\ last'.ret = "ok" /\ wpm_coords = <<>>

\* C11 (as claimed): when the prompt is typed correctly, in order and at
\* increasing instants, has_finished() is false before the last keystroke and
\* true after it, and calc_results then gives accuracy 100, at least one
\* point, and wpm the ceiling of the last point.
TypedPromptFinishes ==
    [][/\ Called("has_finished") =>
             (last'.ret = "true" <=> Len(input) = Len(prompt))
       /\ (Called("calc_results") /\ Len(input) = Len(prompt)) =>
             /\ last'.ret = "ok"
             /\ accuracy' = [nan |-> FALSE, val |-> 100]
             /\ Len(wpm_coords') >= 1
             /\ LET p == wpm_coords'[Len(wpm_coords')]
                IN wpm' * p.den >= p.num /\ (wpm' - 1) * p.den < p.num
      ]_vars

\* C12 (as claimed): after write('c'), write('x'), backspace(), write('a'),
\* write('t') on "cat" the log has length 4 and calc_results gives accuracy 75.
CatLogHasFourRecords ==
    CatDone =>
       /\ Len(input) = 4
       /\ last = Call("calc_results", "ok") => accuracy = [nan |-> FALSE, val |-> 75]

\* C12 (amended): after that script the log has length 3, its records are
\* 'c', 'a', 't', all Correct, and a calc_results that returns gives
\* accuracy round(3/3*100) = 100.
CatLogHasThreeRecords ==
    CatDone =>
       /\ Len(input) = 3
       /\ \A i \in 1..3 : input[i].char = prompt[i] /\ input[i].outcome = "Correct"
       /\ last = Call("calc_results", "ok") => accuracy = [nan |-> FALSE, val |-> 100]

\* C12 witness: the script was played and the results computed
CatResultsComputed ==
    /\ CatDone
    /\ last = Call("calc_results", "ok")
    /\ accuracy.val = 100
    /\ prompt = <<99, 97, 116>>
    /\ started_at # <<>> /\ input[1].timestamp = started_at[1]

\* C16: the first calc_results that returns counts each Correct record in
\* exactly one bucket, the one the rule gives it: the seconds of the points
\* are the buckets of the Correct records, every one greater than 0, and the
\* counts add up to the number of Correct records.
BucketsFollowTheRule ==
    [][Finalized =>
          LET K == {BucketOf(i) : i \in CorrectIdx}
              P == wpm_coords'
          IN /\ {P[j].sec : j \in 1..Len(P)} = K
             /\ \A k \in K : k > 0
             /\ \A j \in 1..Len(P) : P[j].num = 60000 * CorrectUpTo(P[j].sec)
             /\ \A j \in 1..Len(P) :
                   CorrectUpTo(P[j].sec) - (IF j = 1 THEN 0 ELSE CorrectUpTo(P[j - 1].sec))
                      = Cardinality({i \in CorrectIdx : BucketOf(i) = P[j].sec})
             /\ P[Len(P)].num = 60000 * Cardinality(CorrectIdx)]_vars

\* C16 witness: results of a session shorter than one second, with a record
\* at offset 0 and one in the partial last second
BucketsOfAShortSession ==
    /\ last = Call("calc_results", "ok")
    /\ Len(wpm_coords) = 2
    /\ wpm_coords[1].sec < 1000
    /\ wpm_coords[2].sec = 1000

\* C17: after the first calc_results that returns, wpm_coords holds one
\* point per distinct bucket, in strictly ascending order of second, the
\* point at second s with value (60 / s) * (Correct records in buckets <= s) / 5,
\* and wpm is the ceiling of the value of the last point.
TrajectoryIsCumulative ==
    [][Finalized =>
          LET K == {BucketOf(i) : i \in CorrectIdx}
              P == wpm_coords'
          IN /\ Len(P) = Cardinality(K)
             /\ \A j \in 1..Len(P) : P[j].sec \in K
             /\ \A j \in 1..(Len(P) - 1) : P[j].sec < P[j + 1].sec
             /\ \A j \in 1..Len(P) :
                   /\ P[j].num = 60 * 1000 * CorrectUpTo(P[j].sec)
                   /\ P[j].den = 5 * P[j].sec
             /\ CorrectUpTo(P[Len(P)].sec) = Cardinality(CorrectIdx)
             /\ wpm' * P[Len(P)].den >= P[Len(P)].num
             /\ (wpm' - 1) * P[Len(P)].den < P[Len(P)].num]_vars

\* C17 witness: a trajectory of two points, a whole second and the partial
\* last one, over three Correct records
TrajectoryOfTwoPoints ==
    /\ last = Call("calc_results", "ok")
    /\ Len(wpm_coords) = 2
    /\ wpm_coords[1].sec < wpm_coords[2].sec
    /\ wpm_coords[1].sec = 1000
    /\ wpm_coords[2].num = 3 * wpm_coords[1].num

====
